---- MODULE Spec2Model ----
(***************************************************************************)
(* Ledger model of the betlogic backend: the accounts and transactions     *)
(* tables, the user finance routes (/api/finances), the admin finance      *)
(* routes (/api/admin/finances) and the promotion progress route that      *)
(* provisions accounts.  One handler invocation runs per connection; a     *)
(* handler is suspended only at its store calls (await pool.query), so     *)
(* every action below is one store call together with the synchronous      *)
(* code around it.                                                          *)
(*                                                                         *)
(* Money: request amounts are JavaScript numbers, modelled in thousandths  *)
(* (mills); the DECIMAL(10,2) columns hold hundredths (cents).             *)
(***************************************************************************)
EXTENDS Integers, Sequences, FiniteSets, TLC

\* ---------------------------------------------------------------- bounds
MaxAccounts == 2
MaxTx == 1
MaxConcurrentTx == 2
MaxSeqTx == 2

\* The connections that serve requests concurrently.
Conn == {1, 2}

\* ------------------------------------------------------------ JSON values
\* A request field as the JSON body parser delivers it.
Undef == [k |-> "undef"]
Num(n) == [k |-> "num", n |-> n]
Str(s) == [k |-> "str", s |-> s]

\* JavaScript truthiness of a JSON value (the `!x` tests of the handlers).
Falsy(v) ==
  \/ v.k = "undef"
  \/ v.k = "num" /\ v.n = 0
  \/ v.k = "str" /\ v.s = <<>>

Digits == <<"0", "1", "2", "3", "4", "5", "6", "7", "8", "9">>
IsDigit(ch) == \E d \in 1..10 : Digits[d] = ch
DigitVal(ch) == (CHOOSE d \in 1..10 : Digits[d] = ch) - 1

\* Length of the run of decimal digits of s that starts at position i.
RECURSIVE DigitRun(_, _)
DigitRun(s, i) ==
  IF i <= Len(s) /\ IsDigit(s[i]) THEN 1 + DigitRun(s, i + 1) ELSE 0

\* Value of the n digits of s that start at position i.
RECURSIVE DigitsValue(_, _, _)
DigitsValue(s, i, n) ==
  IF n = 0 THEN 0
  ELSE 10 * DigitsValue(s, i, n - 1) + DigitVal(s[i + n - 1])

\* The first three fraction digits, as thousandths.
FracMills(s, i, n) ==
  IF n = 0 THEN 0
  ELSE IF n = 1 THEN 100 * DigitsValue(s, i, 1)
  ELSE IF n = 2 THEN 10 * DigitsValue(s, i, 2)
  ELSE DigitsValue(s, i, 3)

\* The longest prefix of s that is a decimal literal: [len, val] with val in
\* mills, len = 0 when no prefix is a number.
DecimalPrefix(s) ==
  LET neg == Len(s) >= 1 /\ s[1] = "-"
      st == IF neg THEN 2 ELSE 1
      ni == DigitRun(s, st)
      dot == st + ni <= Len(s) /\ s[st + ni] = "."
      nf == IF dot THEN DigitRun(s, st + ni + 1) ELSE 0
      mag == 1000 * DigitsValue(s, st, ni) + FracMills(s, st + ni + 1, nf)
  IN IF ni = 0 /\ nf = 0 THEN [len |-> 0, val |-> 0]
     ELSE [len |-> (st - 1) + ni + (IF dot THEN 1 + nf ELSE 0),
           val |-> IF neg THEN 0 - mag ELSE mag]

\* JavaScript parseFloat: a number is returned as it is, a string gives the
\* value of its longest numeric prefix, anything else NaN.
parseFloat(v) ==
  IF v.k = "num" THEN [nan |-> FALSE, val |-> v.n]
  ELSE IF v.k = "str" /\ DecimalPrefix(v.s).len > 0
       THEN [nan |-> FALSE, val |-> DecimalPrefix(v.s).val]
  ELSE [nan |-> TRUE, val |-> 0]

\* The store's conversion of a query parameter to NUMERIC: the whole text has
\* to be a number, otherwise the statement fails.
PgNumeric(v) ==
  IF v.k = "num" THEN [ok |-> TRUE, val |-> v.n]
  ELSE IF v.k = "str" /\ DecimalPrefix(v.s).len > 0
          /\ DecimalPrefix(v.s).len = Len(v.s)
       THEN [ok |-> TRUE, val |-> DecimalPrefix(v.s).val]
  ELSE [ok |-> FALSE, val |-> 0]

\* Assignment to a DECIMAL(10,2) column: mills rounded to cents, half away
\* from zero.
ToScale2(m) ==
  IF m >= 0 THEN (m + 5) \div 10 ELSE 0 - ((5 - m) \div 10)

\* ------------------------------------------------------------ credentials
\* The decoded bearer token of a request (req.user); valid = FALSE stands for
\* a missing header or a token jwt.verify rejects.
\* generateToken signs with expiresIn "1d"; the clock counts half days.
TokenTtl == 2
Token(u, r) == [userId |-> u, role |-> r, valid |-> TRUE, exp |-> TokenTtl]
BadToken == [userId |-> 0, role |-> "user", valid |-> FALSE, exp |-> TokenTtl]
requireSuperadminOrAdmin(tok) == tok.role = "superadmin" \/ tok.role = "admin"
requireSuperadmin(tok) == tok.role = "superadmin"

\* ------------------------------------------------------------------ state
VARIABLES
  accounts,       \* table accounts: row id -> [user_id, name, balance (cents)]
  transactions,   \* table transactions: row id -> [user_id, from_account,
                  \*   to_account, amount (cents), type, status]
  promotions,     \* table promotions: row id -> [sportsbook_name]
  promotion_steps,\* table promotion_steps: set of [promotion_id, step_number]
  assigned,       \* table user_promotions_assigned: set of [user_id, promotion_id]
  progress,       \* table user_promotion_progress: row id -> [user_id,
                  \*   promotion_id, completed_steps, progress_pct, started_at,
                  \*   completed_at]
  users,          \* table users: row id -> [email, password_hash, role, status,
                  \*   verification_token, reset_token] (token 0 is NULL),
                  \*   and the row's history, which is no column:
                  \*   used_verification, the token that activated the row,
                  \*   issued_reset, the reset token forgot stored last,
                  \*   used_reset, the token of the latest successful reset,
                  \*   reset_uses, how many resets succeeded with used_reset
  bets,           \* table bets: row id -> [user_id, result]
  now,            \* the server clock, in half days
  rand,           \* how many values crypto.randomBytes has handed out
  conn,           \* per connection: the handler in flight, its locals and the
                  \*   store call it is suspended at
  last            \* the response sent by the latest step, with the request it
                  \*   answers (NoResp when the step sent none)

ledger == <<accounts, transactions>>
catalogue == <<promotions, promotion_steps, assigned>>
identity == <<users, bets, now, rand>>
vars == <<accounts, transactions, promotions, promotion_steps, assigned,
          progress, users, bets, now, rand, conn, last>>

\* jwt.verify: the signature holds and the clock has not reached exp.
requireAuthAnyAge(tok) == tok.valid
requireAuth(tok) == tok.valid /\ now < tok.exp

\* requireAdmin reads the role claim of the token (req.user.role);
\* requireAdminStored is the guard that would look the role up in users.
requireAdminStored(tok) ==
  /\ tok.userId \in DOMAIN users
  /\ users[tok.userId].role \in {"admin", "superadmin"}
requireAdmin(tok) == tok.role = "admin" \/ tok.role = "superadmin"

Idle == [op |-> "idle", pc |-> "idle"]
NoResp == [op |-> "none", resp |-> 0]

Free(c) == conn[c].pc = "idle"

\* The handler on c suspends at its next store call.
Suspend(c, r) == conn' = [conn EXCEPT ![c] = r] /\ last' = NoResp

\* The handler on c sends its response and ends.
Answer(c, r, code) ==
  /\ conn' = [conn EXCEPT ![c] = Idle]
  /\ last' = [r EXCEPT !.resp = code]

Init ==
  /\ accounts = <<>>
  /\ transactions = <<>>
  /\ promotions = <<[sportsbook_name |-> "FanDuel"]>>
  /\ promotion_steps = {[promotion_id |-> 1, step_number |-> 1],
                        [promotion_id |-> 1, step_number |-> 2]}
  /\ assigned = {[user_id |-> 1, promotion_id |-> 1]}
  /\ progress = <<>>
  /\ users = <<>>
  /\ bets = <<>>
  /\ now = 0
  /\ rand = 0
  /\ conn = [c \in Conn |-> Idle]
  /\ last = NoResp

\* ------------------------------------------------- POST /finances/accounts
\* ok: whether the store call succeeds (pool.query resolves).
createAccount(c, tok, name, ok) ==
  LET req == [op |-> "createAccount", user |-> tok, name |-> name, resp |-> 0]
  IN
  /\ UNCHANGED <<catalogue, identity, progress>>
  /\ Free(c)
  /\ IF ~requireAuth(tok)
     THEN Answer(c, req, 401) /\ UNCHANGED <<accounts, transactions>>
     ELSE IF name = ""
     THEN Answer(c, req, 400) /\ UNCHANGED <<accounts, transactions>>
     ELSE IF ok
     THEN /\ accounts' = Append(accounts,
               [user_id |-> tok.userId, name |-> name, balance |-> 0])
          /\ Answer(c, req, 200)
          /\ UNCHANGED transactions
     ELSE Answer(c, req, 500) /\ UNCHANGED <<accounts, transactions>>

\* --------------------------------------------- POST /finances/transactions
\* UPDATE accounts SET balance = balance + delta WHERE id = a  (delta in
\* mills; no row is touched when a names no account).
UpdateBalance(accts, a, delta) ==
  IF a \in DOMAIN accts
  THEN [accts EXCEPT ![a].balance = ToScale2(10 * accts[a].balance + delta)]
  ELSE accts

\* createTransaction with the status test of its balance update lost: the
\* debit and the credit follow the INSERT whatever the status.
createTransactionAnyStatus(c, tok, fromAccount, toAccount, amount, status, ok) ==
  LET amt == parseFloat(amount)
      st == IF status = "" THEN "Pending" ELSE status
      req == [op |-> "createTransaction", pc |-> "insert", user |-> tok,
              fromAccount |-> fromAccount, toAccount |-> toAccount,
              amount |-> amount, amt |-> amt.val, status |-> st,
              result |-> 0, before |-> accounts, resp |-> 0]
  IN
  /\ UNCHANGED <<catalogue, identity, progress>>
  /\ Free(c)
  /\ IF ~requireAuth(tok)
     THEN Answer(c, req, 401) /\ UNCHANGED <<accounts, transactions>>
     ELSE IF fromAccount = 0 \/ toAccount = 0 \/ Falsy(amount)
     THEN Answer(c, req, 400) /\ UNCHANGED <<accounts, transactions>>
     ELSE IF amt.nan \/ amt.val <= 0
     THEN Answer(c, req, 400) /\ UNCHANGED <<accounts, transactions>>
     ELSE IF ok
     THEN /\ transactions' = Append(transactions,
               [user_id |-> tok.userId, from_account |-> fromAccount,
                to_account |-> toAccount, amount |-> ToScale2(amt.val),
                type |-> "Deposit", status |-> st])
          /\ Suspend(c, [req EXCEPT !.pc = "debit",
                                    !.result = Len(transactions) + 1])
          /\ UNCHANGED accounts
     ELSE Answer(c, req, 500) /\ UNCHANGED <<accounts, transactions>>

\* Entry of the handler up to and including its INSERT.
createTransaction(c, tok, fromAccount, toAccount, amount, status, ok) ==
  LET amt == parseFloat(amount)
      st == IF status = "" THEN "Pending" ELSE status
      req == [op |-> "createTransaction", pc |-> "insert", user |-> tok, fromAccount |-> fromAccount, toAccount |-> toAccount,
              amount |-> amount, amt |-> amt.val, status |-> st,
              result |-> 0, before |-> accounts, resp |-> 0]
  IN
  /\ UNCHANGED <<catalogue, identity, progress>>
  /\ Free(c)
  /\ IF ~requireAuth(tok)
     THEN Answer(c, req, 401) /\ UNCHANGED <<accounts, transactions>>
     ELSE IF fromAccount = 0 \/ toAccount = 0 \/ Falsy(amount)
     THEN Answer(c, req, 400) /\ UNCHANGED <<accounts, transactions>>
     ELSE IF amt.nan \/ amt.val <= 0
     THEN Answer(c, req, 400) /\ UNCHANGED <<accounts, transactions>>
     ELSE IF ok
     THEN /\ transactions' = Append(transactions,
               [user_id |-> tok.userId, from_account |-> fromAccount,
                to_account |-> toAccount, amount |-> ToScale2(amt.val),
                type |-> "Deposit", status |-> st])
          /\ IF st = "Confirmed"
             THEN Suspend(c, [req EXCEPT !.pc = "debit",
                                         !.result = Len(transactions) + 1])
             ELSE Answer(c, [req EXCEPT !.pc = "done",
                                        !.result = Len(transactions) + 1], 200)
          /\ UNCHANGED accounts
     ELSE Answer(c, req, 500) /\ UNCHANGED <<accounts, transactions>>

\* UPDATE accounts SET balance = balance - amt WHERE id = fromAccount
createTransactionDebit(c, ok) ==
  /\ conn[c].op = "createTransaction" /\ conn[c].pc = "debit"
  /\ UNCHANGED <<catalogue, identity, progress>>
  /\ IF ok
     THEN /\ accounts' = UpdateBalance(accounts, conn[c].fromAccount, 0 - conn[c].amt)
          /\ Suspend(c, [conn[c] EXCEPT !.pc = "credit"])
     ELSE Answer(c, conn[c], 500) /\ UNCHANGED accounts
  /\ UNCHANGED transactions

\* UPDATE accounts SET balance = balance + amt WHERE id = toAccount
createTransactionCredit(c, ok) ==
  /\ conn[c].op = "createTransaction" /\ conn[c].pc = "credit"
  /\ UNCHANGED <<catalogue, identity, progress>>
  /\ IF ok
     THEN /\ accounts' = UpdateBalance(accounts, conn[c].toAccount, conn[c].amt)
          /\ Answer(c, [conn[c] EXCEPT !.pc = "done"], 200)
     ELSE Answer(c, conn[c], 500) /\ UNCHANGED accounts
  /\ UNCHANGED transactions

\* -------------------------------------------------- GET /finances/accounts
\* SELECT id, name, balance FROM accounts WHERE user_id = u ORDER BY id
RECURSIVE AccountRows(_, _, _)
AccountRows(accts, u, i) ==
  IF i > Len(accts) THEN <<>>
  ELSE (IF accts[i].user_id = u
        THEN <<[id |-> i, name |-> accts[i].name, balance |-> accts[i].balance]>>
        ELSE <<>>) \o AccountRows(accts, u, i + 1)

listAccounts(c, tok, ok) ==
  LET req == [op |-> "listAccounts", user |-> tok, body |-> <<>>, resp |-> 0]
  IN
  /\ UNCHANGED <<catalogue, identity, progress>>
  /\ Free(c)
  /\ IF ~requireAuth(tok)
     THEN Answer(c, req, 401)
     ELSE IF ok
     THEN Answer(c, [req EXCEPT !.body = AccountRows(accounts, tok.userId, 1)], 200)
     ELSE Answer(c, req, 500)
  /\ UNCHANGED <<accounts, transactions>>

\* ---------------------------------------------- GET /finances/transactions
\* SELECT ... FROM transactions t JOIN accounts a_from ... JOIN accounts a_to
\* ... WHERE t.user_id = u ORDER BY t.created_at DESC  (rows are created in
\* id order; a row whose account ids name no account drops out of the join).
RECURSIVE TransactionRows(_, _, _, _)
TransactionRows(txs, accts, u, i) ==
  IF i = 0 THEN <<>>
  ELSE (IF /\ txs[i].user_id = u
           /\ txs[i].from_account \in DOMAIN accts
           /\ txs[i].to_account \in DOMAIN accts
        THEN <<[id |-> i, amount |-> txs[i].amount, type |-> txs[i].type,
                status |-> txs[i].status,
                from_account_name |-> accts[txs[i].from_account].name,
                to_account_name |-> accts[txs[i].to_account].name]>>
        ELSE <<>>) \o TransactionRows(txs, accts, u, i - 1)

listTransactions(c, tok, ok) ==
  LET req == [op |-> "listTransactions", user |-> tok, body |-> <<>>, resp |-> 0]
  IN
  /\ UNCHANGED <<catalogue, identity, progress>>
  /\ Free(c)
  /\ IF ~requireAuth(tok)
     THEN Answer(c, req, 401)
     ELSE IF ok
     THEN Answer(c, [req EXCEPT !.body =
              TransactionRows(transactions, accounts, tok.userId,
                              Len(transactions))], 200)
     ELSE Answer(c, req, 500)
  /\ UNCHANGED <<accounts, transactions>>

\* --------------------------------------------------- POST /admin/finances
adminCreateTransaction(c, tok, user_id, from_account, to_account, amount, status, ok) ==
  LET req == [op |-> "adminCreateTransaction", user |-> tok, user_id |-> user_id,
              from_account |-> from_account, to_account |-> to_account,
              amount |-> amount, status |-> status, result |-> 0, resp |-> 0]
  IN
  /\ UNCHANGED <<catalogue, identity, progress>>
  /\ Free(c)
  /\ IF ~requireAuth(tok)
     THEN Answer(c, req, 401) /\ UNCHANGED <<accounts, transactions>>
     ELSE IF ~requireAdmin(tok)
     THEN Answer(c, req, 403) /\ UNCHANGED <<accounts, transactions>>
     ELSE IF user_id = 0 \/ from_account = 0 \/ to_account = 0 \/ Falsy(amount)
     THEN Answer(c, req, 400) /\ UNCHANGED <<accounts, transactions>>
     ELSE IF ok /\ PgNumeric(amount).ok
     THEN /\ transactions' = Append(transactions,
               [user_id |-> user_id, from_account |-> from_account,
                to_account |-> to_account,
                amount |-> ToScale2(PgNumeric(amount).val),
                type |-> "Deposit",
                status |-> IF status = "" THEN "Pending" ELSE status])
          /\ Answer(c, [req EXCEPT !.result = Len(transactions) + 1], 200)
          /\ UNCHANGED accounts
     ELSE Answer(c, req, 500) /\ UNCHANGED <<accounts, transactions>>

\* adminUpdateTransaction that, when it amends the amount, also moves the
\* difference between the new and the old amount on the two accounts.
adminUpdateTransactionAdjusting(c, tok, txId, amount, type, status, ok) ==
  LET req == [op |-> "adminUpdateTransaction", user |-> tok, txId |-> txId,
              amount |-> amount, type |-> type, status |-> status, resp |-> 0]
      upd == [transactions[txId] EXCEPT
                !.amount = IF amount.k = "undef" THEN @
                           ELSE ToScale2(PgNumeric(amount).val),
                !.type = IF type = "undefined" THEN @ ELSE type,
                !.status = IF status = "undefined" THEN @ ELSE status]
      diff == 10 * (upd.amount - transactions[txId].amount)
  IN
  /\ UNCHANGED <<catalogue, identity, progress>>
  /\ Free(c)
  /\ IF ~requireAuth(tok)
     THEN Answer(c, req, 401) /\ UNCHANGED <<accounts, transactions>>
     ELSE IF ~requireAdmin(tok)
     THEN Answer(c, req, 403) /\ UNCHANGED <<accounts, transactions>>
     ELSE IF amount.k = "undef" /\ type = "undefined" /\ status = "undefined"
     THEN Answer(c, req, 200) /\ UNCHANGED <<accounts, transactions>>
     ELSE IF ok /\ (amount.k = "undef" \/ PgNumeric(amount).ok)
     THEN IF txId \in DOMAIN transactions
          THEN /\ transactions' = [transactions EXCEPT ![txId] = upd]
               /\ accounts' = UpdateBalance(
                    UpdateBalance(accounts, upd.from_account, 0 - diff),
                    upd.to_account, diff)
               /\ Answer(c, req, 200)
          ELSE /\ Answer(c, req, 404)
               /\ UNCHANGED <<accounts, transactions>>
     ELSE Answer(c, req, 500) /\ UNCHANGED <<accounts, transactions>>

\* ---------------------------------------------- PATCH /admin/finances/:id
\* amount is a JSON value; type and status are strings, "undefined" when the
\* body does not carry the field.
adminUpdateTransaction(c, tok, txId, amount, type, status, ok) ==
  LET req == [op |-> "adminUpdateTransaction", user |-> tok, txId |-> txId,
              amount |-> amount, type |-> type, status |-> status, resp |-> 0]
      upd == [transactions[txId] EXCEPT
                !.amount = IF amount.k = "undef" THEN @
                           ELSE ToScale2(PgNumeric(amount).val),
                !.type = IF type = "undefined" THEN @ ELSE type,
                !.status = IF status = "undefined" THEN @ ELSE status]
  IN
  /\ UNCHANGED <<catalogue, identity, progress>>
  /\ Free(c)
  /\ IF ~requireAuth(tok)
     THEN Answer(c, req, 401) /\ UNCHANGED <<accounts, transactions>>
     ELSE IF ~requireAdmin(tok)
     THEN Answer(c, req, 403) /\ UNCHANGED <<accounts, transactions>>
     ELSE IF amount.k = "undef" /\ type = "undefined" /\ status = "undefined"
     THEN Answer(c, req, 200) /\ UNCHANGED <<accounts, transactions>>
     ELSE IF ok /\ (amount.k = "undef" \/ PgNumeric(amount).ok)
     THEN /\ IF txId \in DOMAIN transactions
             THEN /\ transactions' = [transactions EXCEPT ![txId] = upd]
                  /\ Answer(c, req, 200)
             ELSE /\ Answer(c, req, 404)
                  /\ UNCHANGED transactions
          /\ UNCHANGED accounts
     ELSE Answer(c, req, 500) /\ UNCHANGED <<accounts, transactions>>

\* --------------------------------------------- POST /promotions/:id/progress
\* [...new Set(completedSteps)]: the first occurrence of every value, in order.
RECURSIVE Unique(_)
Unique(steps) ==
  IF steps = <<>> THEN <<>>
  ELSE LET r == Unique(SubSeq(steps, 1, Len(steps) - 1))
           x == steps[Len(steps)]
       IN IF \E i \in 1..Len(r) : r[i] = x THEN r ELSE Append(r, x)

\* 2^x for x >= 0.
RECURSIVE Pow2(_)
Pow2(x) == IF x = 0 THEN 1 ELSE 2 * Pow2(x - 1)

\* floor(log2(a / b)) for a, b > 0: the binary exponent of the double a / b.
FloatExponent(a, b) ==
  IF a >= b
  THEN CHOOSE e \in 0..16 : b * Pow2(e) <= a /\ a < b * Pow2(e + 1)
  ELSE 0 - (CHOOSE j \in 1..16 : a * Pow2(j) >= b /\ a * Pow2(j - 1) < b)

\* (k * 2^s) % n by repeated doubling: the remainder the long division k / n
\* has left after s binary digits.
RECURSIVE DivisionRemainder(_, _, _)
DivisionRemainder(k, s, n) ==
  IF s = 0 THEN k % n ELSE (2 * DivisionRemainder(k, s - 1, n)) % n

\* Math.floor((k / totalSteps) * 100) in IEEE 754 double arithmetic, 0 when
\* the promotion has no steps. The quotient k / totalSteps is rounded to 53
\* binary digits, and so is its product with 100. Where 100 * k / totalSteps
\* is no integer, the two roundings are too small to reach the next integer
\* and the floor is that of the exact value. Where it is an integer E, a
\* quotient rounded down (remainder r, not rounded up) makes the product
\* E - 100 * r / (totalSteps * 2^s), which rounds back to E only if that
\* distance is at most half the spacing of the doubles below E; otherwise the
\* floor is E - 1 (29 of 50: 0.58 * 100 = 57.99999999999999, floor 57).
PctOfDouble(k, totalSteps) ==
  LET E == (100 * k) \div totalSteps
      e == FloatExponent(k, totalSteps)
      s == 52 - e
      r == DivisionRemainder(k, s, totalSteps)
      lastBit == (2 * DivisionRemainder(k, s - 1, totalSteps)) \div totalSteps
      roundedUp == 2 * r > totalSteps \/ (2 * r = totalSteps /\ lastBit = 1)
      p == FloatExponent(E, 1)
      x == IF E > Pow2(p) THEN p - e - 1 ELSE p - e - 2
  IN IF (100 * k) % totalSteps # 0 \/ k = 0 \/ r = 0 \/ roundedUp THEN E
     ELSE IF 100 * r <= totalSteps * Pow2(x) THEN E ELSE E - 1

\* The same percentage in exact integer arithmetic.
PctExact(k, totalSteps) == IF totalSteps > 0 THEN (100 * k) \div totalSteps ELSE 0
Pct(k, totalSteps) == IF totalSteps > 0 THEN PctOfDouble(k, totalSteps) ELSE 0

\* A column that holds NULL where the others hold a time of the clock.
NoTime == 0 - 1

recordProgressUnchecked(c, tok, promoId, completedSteps, ok) ==
  LET totalSteps == Cardinality({r \in promotion_steps : r.promotion_id = promoId})
      uniqueCompleted == Unique(completedSteps)
      sportsbook_name == IF promoId \in DOMAIN promotions
                         THEN promotions[promoId].sportsbook_name ELSE ""
      req == [op |-> "recordProgress", pc |-> "entry", user |-> tok,
              promoId |-> promoId, uniqueCompleted |-> uniqueCompleted,
              newPct |-> Pct(Len(uniqueCompleted), totalSteps),
              sportsbook_name |-> sportsbook_name, existing |-> 0,
              existing_steps |-> <<>>, resp |-> 0]
  IN
  /\ UNCHANGED <<ledger, catalogue, identity, progress>>
  /\ Free(c)
  /\ IF ~requireAuth(tok)
     THEN Answer(c, req, 401)
     ELSE IF ~ok
     THEN Answer(c, req, 500)
     ELSE IF promoId \notin DOMAIN promotions
     THEN Answer(c, req, 404)
     ELSE IF (\E i \in 1..Len(uniqueCompleted) : uniqueCompleted[i] = 1)
             /\ sportsbook_name # ""
     THEN Suspend(c, [req EXCEPT !.pc = "autoCheck"])
     ELSE Suspend(c, [req EXCEPT !.pc = "upp"])

\* Entry of the handler: the assignment check, the step count and the
\* promotion row (three reads of tables no route of this model writes).
recordProgress(c, tok, promoId, completedSteps, ok) ==
  LET totalSteps == Cardinality({r \in promotion_steps : r.promotion_id = promoId})
      uniqueCompleted == Unique(completedSteps)
      sportsbook_name == IF promoId \in DOMAIN promotions
                         THEN promotions[promoId].sportsbook_name ELSE ""
      req == [op |-> "recordProgress", pc |-> "entry", user |-> tok,
              promoId |-> promoId, uniqueCompleted |-> uniqueCompleted,
              newPct |-> Pct(Len(uniqueCompleted), totalSteps),
              sportsbook_name |-> sportsbook_name, existing |-> 0,
              existing_steps |-> <<>>, resp |-> 0]
  IN
  /\ UNCHANGED <<ledger, catalogue, identity, progress>>
  /\ Free(c)
  /\ IF ~requireAuth(tok)
     THEN Answer(c, req, 401)
     ELSE IF ~ok
     THEN Answer(c, req, 500)
     ELSE IF [user_id |-> tok.userId, promotion_id |-> promoId] \notin assigned
     THEN Answer(c, req, 403)
     ELSE IF promoId \notin DOMAIN promotions
     THEN Answer(c, req, 404)
     ELSE IF (\E i \in 1..Len(uniqueCompleted) : uniqueCompleted[i] = 1)
             /\ sportsbook_name # ""
     THEN Suspend(c, [req EXCEPT !.pc = "autoCheck"])
     ELSE Suspend(c, [req EXCEPT !.pc = "upp"])

recordProgressAutoCheckBlind(c, ok) ==
  /\ conn[c].op = "recordProgress" /\ conn[c].pc = "autoCheck"
  /\ UNCHANGED <<ledger, catalogue, identity, progress>>
  /\ IF ~ok
     THEN Answer(c, conn[c], 500)
     ELSE Suspend(c, [conn[c] EXCEPT !.pc = "autoInsert"])

\* autoCreateSportsbookAccount: SELECT id FROM accounts WHERE user_id AND name
recordProgressAutoCheck(c, ok) ==
  /\ conn[c].op = "recordProgress" /\ conn[c].pc = "autoCheck"
  /\ UNCHANGED <<ledger, catalogue, identity, progress>>
  /\ IF ~ok
     THEN Answer(c, conn[c], 500)
     ELSE IF \E a \in DOMAIN accounts :
               /\ accounts[a].user_id = conn[c].user.userId
               /\ accounts[a].name = conn[c].sportsbook_name
     THEN Suspend(c, [conn[c] EXCEPT !.pc = "upp"])
     ELSE Suspend(c, [conn[c] EXCEPT !.pc = "autoInsert"])

\* autoCreateSportsbookAccount: INSERT INTO accounts (user_id, name)
recordProgressAutoInsert(c, ok) ==
  /\ conn[c].op = "recordProgress" /\ conn[c].pc = "autoInsert"
  /\ UNCHANGED <<transactions, catalogue, identity, progress>>
  /\ IF ok
     THEN /\ accounts' = Append(accounts,
               [user_id |-> conn[c].user.userId,
                name |-> conn[c].sportsbook_name, balance |-> 0])
          /\ Suspend(c, [conn[c] EXCEPT !.pc = "upp"])
     ELSE Answer(c, conn[c], 500) /\ UNCHANGED accounts

\* SELECT id, ... FROM user_promotion_progress WHERE user_id AND promotion_id
recordProgressSelect(c, ok) ==
  LET rows == {i \in DOMAIN progress :
                 /\ progress[i].user_id = conn[c].user.userId
                 /\ progress[i].promotion_id = conn[c].promoId}
  IN
  /\ conn[c].op = "recordProgress" /\ conn[c].pc = "upp"
  /\ UNCHANGED <<ledger, catalogue, identity, progress>>
  /\ IF ~ok
     THEN Answer(c, conn[c], 500)
     ELSE IF rows = {}
     THEN Suspend(c, [conn[c] EXCEPT !.pc = "insert"])
     ELSE \E i \in rows :
            Suspend(c, [conn[c] EXCEPT !.pc = "update", !.existing = i,
                          !.existing_steps = progress[i].completed_steps])

recordProgressWriteRestart(c, ok) ==
  /\ conn[c].op = "recordProgress" /\ conn[c].pc \in {"insert", "update"}
  /\ UNCHANGED <<ledger, catalogue, identity>>
  /\ \/ /\ ok /\ conn[c].pc = "insert"
        /\ progress' = Append(progress,
             [user_id |-> conn[c].user.userId, promotion_id |-> conn[c].promoId,
              completed_steps |-> conn[c].uniqueCompleted,
              progress_pct |-> conn[c].newPct, started_at |-> now,
              completed_at |-> NoTime])
        /\ Answer(c, [conn[c] EXCEPT !.pc = "done"], 200)
     \/ /\ ok /\ conn[c].pc = "update"
        /\ progress' = [progress EXCEPT ![conn[c].existing] =
             [@ EXCEPT !.completed_steps = conn[c].uniqueCompleted,
                       !.started_at = now,
                       !.progress_pct = conn[c].newPct,
                       !.completed_at = IF conn[c].newPct = 100 THEN now ELSE @]]
        /\ Answer(c, [conn[c] EXCEPT !.pc = "done"], 200)
     \/ /\ ~ok
        /\ Answer(c, conn[c], 500)
        /\ UNCHANGED progress

\* INSERT INTO user_promotion_progress / UPDATE user_promotion_progress
recordProgressWrite(c, ok) ==
  /\ conn[c].op = "recordProgress" /\ conn[c].pc \in {"insert", "update"}
  /\ UNCHANGED <<ledger, catalogue, identity>>
  /\ \/ /\ ok /\ conn[c].pc = "insert"
        /\ progress' = Append(progress,
             [user_id |-> conn[c].user.userId, promotion_id |-> conn[c].promoId,
              completed_steps |-> conn[c].uniqueCompleted,
              progress_pct |-> conn[c].newPct, started_at |-> now,
              completed_at |-> NoTime])
        /\ Answer(c, [conn[c] EXCEPT !.pc = "done"], 200)
     \/ /\ ok /\ conn[c].pc = "update"
        /\ progress' = [progress EXCEPT ![conn[c].existing] =
             [@ EXCEPT !.completed_steps = conn[c].uniqueCompleted,
                       !.progress_pct = conn[c].newPct,
                       !.completed_at = IF conn[c].newPct = 100 THEN now ELSE @]]
        /\ Answer(c, [conn[c] EXCEPT !.pc = "done"], 200)
     \/ /\ ~ok
        /\ Answer(c, conn[c], 500)
        /\ UNCHANGED progress

\* ------------------------------------------------------------ auth routes
\* bcrypt.hash and bcrypt.compare: a hash matches the password it was made of.
Hash(p) == <<"bcrypt", p>>
compare(p, h) == h = Hash(p)

\* SELECT ... FROM users WHERE email = e: the row ids.
UsersByEmail(e) == {i \in DOMAIN users : users[i].email = e}
\* SELECT ... FROM users WHERE verification_token = t (NULL matches nothing).
UsersByVerification(t) ==
  {i \in DOMAIN users : users[i].verification_token = t /\ t # 0}
\* SELECT ... FROM users WHERE reset_token = t
UsersByReset(t) == {i \in DOMAIN users : users[i].reset_token = t /\ t # 0}
\* rows[0] of a result that is not empty.
FirstRow(ids) == CHOOSE i \in ids : \A j \in ids : i <= j

\* POST /auth/register up to its SELECT; the password is hashed and the
\* verification token drawn before the INSERT is sent.
register(c, email, password, ok) ==
  LET req == [op |-> "register", pc |-> "insert", email |-> email,
              password |-> password, verificationToken |-> rand + 1,
              newUser |-> 0, resp |-> 0]
  IN
  /\ UNCHANGED <<ledger, catalogue, progress, users, bets, now>>
  /\ Free(c)
  /\ IF email = "" \/ password = ""
     THEN Answer(c, req, 400) /\ UNCHANGED rand
     ELSE IF ~ok
     THEN Answer(c, req, 500) /\ UNCHANGED rand
     ELSE IF UsersByEmail(email) # {}
     THEN Answer(c, req, 400) /\ UNCHANGED rand
     ELSE Suspend(c, req) /\ rand' = rand + 1

\* INSERT INTO users ...: email is UNIQUE, a second row of one email throws.
registerInsert(c, ok) ==
  /\ conn[c].op = "register" /\ conn[c].pc = "insert"
  /\ UNCHANGED <<ledger, catalogue, progress, bets, now, rand>>
  /\ IF ok /\ UsersByEmail(conn[c].email) = {}
     THEN /\ users' = Append(users,
               [email |-> conn[c].email,
                password_hash |-> Hash(conn[c].password),
                role |-> "user", status |-> "pendingVerification",
                verification_token |-> conn[c].verificationToken,
                reset_token |-> 0, used_verification |-> 0,
                issued_reset |-> 0, used_reset |-> 0, reset_uses |-> 0])
          /\ Suspend(c, [conn[c] EXCEPT !.pc = "mail",
                                        !.newUser = Len(users) + 1])
     ELSE Answer(c, conn[c], 500) /\ UNCHANGED users

\* sendVerificationEmail, then the response.
registerMail(c, sent) ==
  /\ conn[c].op = "register" /\ conn[c].pc = "mail"
  /\ UNCHANGED <<ledger, catalogue, progress, identity>>
  /\ Answer(c, conn[c], IF sent THEN 200 ELSE 500)

\* GET /auth/verify/:token up to its SELECT.
verify(c, token, ok) ==
  LET req == [op |-> "verify", pc |-> "update", token |-> token, id |-> 0,
              resp |-> 0]
      rows == UsersByVerification(token)
  IN
  /\ UNCHANGED <<ledger, catalogue, progress, identity>>
  /\ Free(c)
  /\ IF ~ok THEN Answer(c, req, 500)
     ELSE IF rows = {} THEN Answer(c, req, 400)
     ELSE IF users[FirstRow(rows)].status = "active" THEN Answer(c, req, 200)
     ELSE Suspend(c, [req EXCEPT !.id = FirstRow(rows)])

\* UPDATE users SET status='active', verification_token=NULL WHERE id=$1
verifyUpdate(c, ok) ==
  /\ conn[c].op = "verify" /\ conn[c].pc = "update"
  /\ UNCHANGED <<ledger, catalogue, progress, bets, now, rand>>
  /\ IF ok
     THEN /\ users' = [users EXCEPT ![conn[c].id].status = "active",
                                    ![conn[c].id].verification_token = 0,
                                    ![conn[c].id].used_verification = conn[c].token]
          /\ Answer(c, conn[c], 200)
     ELSE Answer(c, conn[c], 500) /\ UNCHANGED users

\* jwt.sign(payload, secret, {expiresIn: "1d"})
generateToken(u, r) ==
  [userId |-> u, role |-> r, valid |-> TRUE, exp |-> now + TokenTtl]
NoToken == [userId |-> 0, role |-> "none", valid |-> FALSE, exp |-> 0]

\* login that does not look at the status of the row.
loginAnyStatus(c, email, password, ok) ==
  LET req == [op |-> "login", email |-> email, password |-> password,
              token |-> NoToken, resp |-> 0]
      rows == UsersByEmail(email)
      user == users[FirstRow(rows)]
  IN
  /\ UNCHANGED <<ledger, catalogue, progress, identity>>
  /\ Free(c)
  /\ IF email = "" \/ password = "" THEN Answer(c, req, 400)
     ELSE IF ~ok THEN Answer(c, req, 500)
     ELSE IF rows = {} THEN Answer(c, req, 401)
     ELSE IF ~compare(password, user.password_hash) THEN Answer(c, req, 401)
     ELSE Answer(c, [req EXCEPT
                       !.token = generateToken(FirstRow(rows), user.role)], 200)

\* POST /auth/login: one SELECT, then bcrypt.compare on the row it returned.
login(c, email, password, ok) ==
  LET req == [op |-> "login", email |-> email, password |-> password,
              token |-> NoToken, resp |-> 0]
      rows == UsersByEmail(email)
      user == users[FirstRow(rows)]
  IN
  /\ UNCHANGED <<ledger, catalogue, progress, identity>>
  /\ Free(c)
  /\ IF email = "" \/ password = "" THEN Answer(c, req, 400)
     ELSE IF ~ok THEN Answer(c, req, 500)
     ELSE IF rows = {} THEN Answer(c, req, 401)
     ELSE IF ~compare(password, user.password_hash) THEN Answer(c, req, 401)
     ELSE IF user.status # "active" THEN Answer(c, req, 403)
     ELSE Answer(c, [req EXCEPT
                       !.token = generateToken(FirstRow(rows), user.role)], 200)

\* POST /auth/forgot up to its SELECT; the reset token is drawn before the
\* UPDATE is sent.
forgot(c, email, ok) ==
  LET req == [op |-> "forgot", pc |-> "update", email |-> email, id |-> 0,
              resetToken |-> rand + 1, resp |-> 0]
      rows == UsersByEmail(email)
  IN
  /\ UNCHANGED <<ledger, catalogue, progress, users, bets, now>>
  /\ Free(c)
  /\ IF email = "" THEN Answer(c, req, 400) /\ UNCHANGED rand
     ELSE IF ~ok THEN Answer(c, req, 500) /\ UNCHANGED rand
     ELSE IF rows = {} THEN Answer(c, req, 200) /\ UNCHANGED rand
     ELSE /\ Suspend(c, [req EXCEPT !.id = FirstRow(rows)])
          /\ rand' = rand + 1

\* UPDATE users SET reset_token=$1 WHERE id=$2
forgotUpdate(c, ok) ==
  /\ conn[c].op = "forgot" /\ conn[c].pc = "update"
  /\ UNCHANGED <<ledger, catalogue, progress, bets, now, rand>>
  /\ IF ok
     THEN /\ users' = [users EXCEPT ![conn[c].id].reset_token = conn[c].resetToken,
                                    ![conn[c].id].issued_reset = conn[c].resetToken]
          /\ Suspend(c, [conn[c] EXCEPT !.pc = "mail"])
     ELSE Answer(c, conn[c], 500) /\ UNCHANGED users

\* sendResetEmail, then the response.
forgotMail(c, sent) ==
  /\ conn[c].op = "forgot" /\ conn[c].pc = "mail"
  /\ UNCHANGED <<ledger, catalogue, progress, identity>>
  /\ Answer(c, conn[c], IF sent THEN 200 ELSE 500)

\* POST /auth/reset up to its SELECT.
reset(c, token, newPassword, ok) ==
  LET req == [op |-> "reset", pc |-> "update", token |-> token,
              newPassword |-> newPassword, id |-> 0, resp |-> 0]
      rows == UsersByReset(token)
  IN
  /\ UNCHANGED <<ledger, catalogue, progress, identity>>
  /\ Free(c)
  /\ IF token = 0 \/ newPassword = "" THEN Answer(c, req, 400)
     ELSE IF ~ok THEN Answer(c, req, 500)
     ELSE IF rows = {} THEN Answer(c, req, 400)
     ELSE Suspend(c, [req EXCEPT !.id = FirstRow(rows)])

\* UPDATE users SET password_hash=$1, reset_token=NULL WHERE id=$2
resetUpdate(c, ok) ==
  /\ conn[c].op = "reset" /\ conn[c].pc = "update"
  /\ UNCHANGED <<ledger, catalogue, progress, bets, now, rand>>
  /\ IF ok
     THEN /\ users' = [users EXCEPT
               ![conn[c].id].password_hash = Hash(conn[c].newPassword),
               ![conn[c].id].reset_token = 0,
               ![conn[c].id].reset_uses =
                   IF users[conn[c].id].used_reset = conn[c].token
                   THEN @ + 1 ELSE 1,
               ![conn[c].id].used_reset = conn[c].token]
          /\ Answer(c, conn[c], 200)
     ELSE Answer(c, conn[c], 500) /\ UNCHANGED users

\* ------------------------------------------------------ admin: manage users
\* GET /admin/users
listUsers(c, tok, ok) ==
  LET req == [op |-> "listUsers", user |-> tok, body |-> <<>>, resp |-> 0]
  IN
  /\ UNCHANGED <<ledger, catalogue, progress, identity>>
  /\ Free(c)
  /\ IF ~requireAuth(tok) THEN Answer(c, req, 401)
     ELSE IF ~requireAdmin(tok) THEN Answer(c, req, 403)
     ELSE IF ok
     THEN Answer(c, [req EXCEPT !.body =
              [i \in DOMAIN users |-> [id |-> i, email |-> users[i].email,
                 role |-> users[i].role, status |-> users[i].status]]], 200)
     ELSE Answer(c, req, 500)

\* POST /admin/users/promote and POST /admin/promote (route names the one of
\* the two): UPDATE users SET role=$1 WHERE id=$2
promoteUser(c, route, tok, userId, newRole, ok) ==
  LET req == [op |-> route, user |-> tok, userId |-> userId,
              newRole |-> newRole, resp |-> 0]
  IN
  /\ UNCHANGED <<ledger, catalogue, progress, bets, now, rand>>
  /\ Free(c)
  /\ IF ~requireAuth(tok) THEN Answer(c, req, 401) /\ UNCHANGED users
     ELSE IF ~requireSuperadmin(tok) THEN Answer(c, req, 403) /\ UNCHANGED users
     ELSE IF userId = 0 \/ newRole = "" THEN Answer(c, req, 400) /\ UNCHANGED users
     ELSE IF ~ok THEN Answer(c, req, 500) /\ UNCHANGED users
     ELSE IF userId \notin DOMAIN users
     THEN Answer(c, req, 404) /\ UNCHANGED users
     ELSE /\ users' = [users EXCEPT ![userId].role = newRole]
          /\ Answer(c, req, 200)

\* GET /admin/test
adminTest(c, tok) ==
  LET req == [op |-> "adminTest", user |-> tok, resp |-> 0]
  IN
  /\ UNCHANGED <<ledger, catalogue, progress, identity>>
  /\ Free(c)
  /\ IF ~requireAuth(tok) THEN Answer(c, req, 401)
     ELSE IF ~requireSuperadmin(tok) THEN Answer(c, req, 403)
     ELSE Answer(c, req, 200)

\* POST /admin/users/deactivate: UPDATE users SET status='deactivated' WHERE id
deactivateUser(c, tok, userId, ok) ==
  LET req == [op |-> "deactivateUser", user |-> tok, userId |-> userId,
              resp |-> 0]
  IN
  /\ UNCHANGED <<ledger, catalogue, progress, bets, now, rand>>
  /\ Free(c)
  /\ IF ~requireAuth(tok) THEN Answer(c, req, 401) /\ UNCHANGED users
     ELSE IF ~requireAdmin(tok) THEN Answer(c, req, 403) /\ UNCHANGED users
     ELSE IF userId = 0 THEN Answer(c, req, 400) /\ UNCHANGED users
     ELSE IF ~ok THEN Answer(c, req, 500) /\ UNCHANGED users
     ELSE IF userId \notin DOMAIN users
     THEN Answer(c, req, 404) /\ UNCHANGED users
     ELSE /\ users' = [users EXCEPT ![userId].status = "deactivated"]
          /\ Answer(c, req, 200)

\* ------------------------------------------------------------------- bets
\* POST /bets: a caller of role user creates the bet for themselves; user_id
\* (0 when absent) is honoured for admin and superadmin.
createBet(c, tok, user_id, result, ok) ==
  LET req == [op |-> "createBet", user |-> tok, user_id |-> user_id,
              result |-> result, resp |-> 0]
      assignedUserId == IF requireAdmin(tok) /\ user_id # 0
                        THEN user_id ELSE tok.userId
  IN
  /\ UNCHANGED <<ledger, catalogue, progress, users, now, rand>>
  /\ Free(c)
  /\ IF ~requireAuth(tok) THEN Answer(c, req, 401) /\ UNCHANGED bets
     ELSE IF ok
     THEN /\ bets' = Append(bets, [user_id |-> assignedUserId,
                 result |-> IF result = "" THEN "Open" ELSE result])
          /\ Answer(c, req, 200)
     ELSE Answer(c, req, 500) /\ UNCHANGED bets

\* PATCH /bets/:id with the ownership check placed after the UPDATE.
patchBetLateCheck(c, tok, betId, result, ok) ==
  LET req == [op |-> "patchBet", pc |-> "update", user |-> tok,
              betId |-> betId, result |-> result, resp |-> 0]
  IN
  /\ UNCHANGED <<ledger, catalogue, progress, users, now, rand>>
  /\ Free(c)
  /\ IF ~requireAuth(tok) THEN Answer(c, req, 401) /\ UNCHANGED bets
     ELSE IF ~ok THEN Answer(c, req, 500) /\ UNCHANGED bets
     ELSE IF betId \notin DOMAIN bets THEN Answer(c, req, 404) /\ UNCHANGED bets
     ELSE IF result = "undefined" THEN Answer(c, req, 200) /\ UNCHANGED bets
     ELSE IF ~requireAdmin(tok) /\ bets[betId].user_id # tok.userId
     THEN /\ bets' = [bets EXCEPT ![betId].result = result]
          /\ Answer(c, req, 403)
     ELSE Suspend(c, req) /\ UNCHANGED bets

\* PATCH /bets/:id up to its SELECT, the ownership check and the field list
\* (result "undefined": the body names no field).
patchBet(c, tok, betId, result, ok) ==
  LET req == [op |-> "patchBet", pc |-> "update", user |-> tok,
              betId |-> betId, result |-> result, resp |-> 0]
  IN
  /\ UNCHANGED <<ledger, catalogue, progress, identity>>
  /\ Free(c)
  /\ IF ~requireAuth(tok) THEN Answer(c, req, 401)
     ELSE IF ~ok THEN Answer(c, req, 500)
     ELSE IF betId \notin DOMAIN bets THEN Answer(c, req, 404)
     ELSE IF ~requireAdmin(tok) /\ bets[betId].user_id # tok.userId
     THEN Answer(c, req, 403)
     ELSE IF result = "undefined" THEN Answer(c, req, 200)
     ELSE Suspend(c, req)

\* UPDATE bets SET ... WHERE id=$n
patchBetUpdate(c, ok) ==
  /\ conn[c].op = "patchBet" /\ conn[c].pc = "update"
  /\ UNCHANGED <<ledger, catalogue, progress, users, now, rand>>
  /\ IF ok
     THEN /\ bets' = [bets EXCEPT ![conn[c].betId].result = conn[c].result]
          /\ Answer(c, conn[c], 200)
     ELSE Answer(c, conn[c], 500) /\ UNCHANGED bets

\* ------------------------------------------- transactions of all or one user
\* SELECT transactions.* ... FROM transactions JOIN users ON
\* transactions.user_id = users.id [WHERE user_id = $1] ORDER BY created_at
\* DESC  (user_id 0: the query string names none).
RECURSIVE AllTransactionRows(_, _, _, _)
AllTransactionRows(txs, usrs, user_id, i) ==
  IF i = 0 THEN <<>>
  ELSE (IF /\ txs[i].user_id \in DOMAIN usrs
           /\ (user_id = 0 \/ txs[i].user_id = user_id)
        THEN <<[id |-> i, user_id |-> txs[i].user_id,
                amount |-> txs[i].amount, status |-> txs[i].status]>>
        ELSE <<>>) \o AllTransactionRows(txs, usrs, user_id, i - 1)

\* GET / of the transactions overview routes
allTransactions(c, tok, user_id, ok) ==
  LET req == [op |-> "allTransactions", user |-> tok, user_id |-> user_id,
              body |-> <<>>, resp |-> 0]
  IN
  /\ UNCHANGED <<ledger, catalogue, progress, identity>>
  /\ Free(c)
  /\ IF ~requireAuth(tok) THEN Answer(c, req, 401)
     ELSE IF ok
     THEN Answer(c, [req EXCEPT !.body =
              AllTransactionRows(transactions, users, user_id,
                                 Len(transactions))], 200)
     ELSE Answer(c, req, 500)

\* SELECT * FROM transactions WHERE user_id=$1 ORDER BY created_at DESC
RECURSIVE UserTransactionRows(_, _, _)
UserTransactionRows(txs, userId, i) ==
  IF i = 0 THEN <<>>
  ELSE (IF txs[i].user_id = userId
        THEN <<[id |-> i, user_id |-> txs[i].user_id,
                amount |-> txs[i].amount, status |-> txs[i].status]>>
        ELSE <<>>) \o UserTransactionRows(txs, userId, i - 1)

\* GET /user/:userId up to its first SELECT (the user's names and email)
userDetail(c, tok, userId, ok) ==
  LET req == [op |-> "userDetail", pc |-> "transactions", user |-> tok,
              userId |-> userId,
              email |-> IF userId \in DOMAIN users THEN users[userId].email
                        ELSE "",
              body |-> <<>>, resp |-> 0]
  IN
  /\ UNCHANGED <<ledger, catalogue, progress, identity>>
  /\ Free(c)
  /\ IF ~requireAuth(tok) THEN Answer(c, req, 401)
     ELSE IF ok THEN Suspend(c, req)
     ELSE Answer(c, req, 500)

\* its second SELECT, and the response
userDetailTransactions(c, ok) ==
  /\ conn[c].op = "userDetail" /\ conn[c].pc = "transactions"
  /\ UNCHANGED <<ledger, catalogue, progress, identity>>
  /\ IF ok
     THEN Answer(c, [conn[c] EXCEPT !.body =
              UserTransactionRows(transactions, conn[c].userId,
                                  Len(transactions))], 200)
     ELSE Answer(c, conn[c], 500)

\* ----------------------------------------------------------- request sets
User1 == Token(1, "user")
User2 == Token(2, "user")
Admin == Token(3, "admin")
AccountIds == {1, 2}
Statuses == {"", "Confirmed"}

\* POST /finances/accounts
AccountRequests ==
  [tok : {User1, User2}, name : {"Checking"}]
  \cup {[tok |-> BadToken, name |-> "Checking"], [tok |-> User1, name |-> ""]}

\* POST /finances/accounts by one owner
LedgerAccountRequests ==
  {[tok |-> User1, name |-> "Checking"], [tok |-> BadToken, name |-> "Checking"],
   [tok |-> User1, name |-> ""]}

\* POST /finances/transactions
TransactionRequests ==
  [tok : {User1}, f : AccountIds, t : AccountIds, a : {Num(10)}, s : Statuses]
  \cup [tok : {BadToken}, f : {1}, t : {2}, a : {Num(10)}, s : {"Confirmed"}]
  \cup [tok : {User1}, f : {0}, t : {2}, a : {Num(10)}, s : {"Confirmed"}]
  \cup [tok : {User1}, f : {1}, t : {2}, a : {Undef}, s : {"Confirmed"}]

\* POST /admin/finances
AdminCreateRequests ==
  [tok : {Admin}, u : {1}, f : {1}, t : {2}, a : {Num(10)}, s : Statuses]
  \cup [tok : {BadToken, User1}, u : {1}, f : {1}, t : {2}, a : {Num(10)},
        s : {"Confirmed"}]
  \cup [tok : {Admin}, u : {1}, f : {1}, t : {2}, a : {Undef, Str(<<"a">>)},
        s : {"Confirmed"}]

\* PATCH /admin/finances/:id
AdminUpdateRequests ==
  [tok : {Admin}, id : {1}, a : {Undef, Num(20)}, ty : {"undefined"},
   s : {"undefined", "Confirmed"}]
  \cup [tok : {Admin}, id : {MaxTx + 1}, a : {Undef}, ty : {"undefined"},
        s : {"Confirmed"}]
  \cup [tok : {Admin}, id : {1}, a : {Str(<<"a">>)}, ty : {"Bonus"},
        s : {"undefined"}]
  \cup [tok : {BadToken, User1}, id : {1}, a : {Undef}, ty : {"undefined"},
        s : {"Confirmed"}]

\* ------------------------------------- Spec: the ledger routes, concurrent
\* Connection 1 carries the transfer, the one handler that spans several store
\* calls; connection 2 serves every other request between any two of them
\* (transfers concurrent with each other are the matter of SpecConc).
Next ==
  \/ \E r \in LedgerAccountRequests, ok \in BOOLEAN :
        Len(accounts) < MaxAccounts /\ createAccount(2, r.tok, r.name, ok)
  \/ \E r \in TransactionRequests, ok \in BOOLEAN :
        Len(transactions) < MaxTx
        /\ createTransaction(1, r.tok, r.f, r.t, r.a, r.s, ok)
  \/ \E ok \in BOOLEAN : createTransactionDebit(1, ok)
  \/ \E ok \in BOOLEAN : createTransactionCredit(1, ok)
  \/ \E tok \in {User1, BadToken}, ok \in BOOLEAN : listAccounts(2, tok, ok)
  \/ \E tok \in {User1, BadToken}, ok \in BOOLEAN : listTransactions(2, tok, ok)
  \/ \E r \in AdminCreateRequests, ok \in BOOLEAN :
        Len(transactions) < MaxTx
        /\ adminCreateTransaction(2, r.tok, r.u, r.f, r.t, r.a, r.s, ok)
  \/ \E r \in AdminUpdateRequests, ok \in BOOLEAN :
        adminUpdateTransaction(2, r.tok, r.id, r.a, r.ty, r.s, ok)

Spec == Init /\ [][Next]_vars

\* ------------- SpecSeq: one request at a time, every shape of the request
AllIdle == \A c \in Conn : conn[c].pc = "idle"

Amounts ==
  { Undef, Num(0), Num(0 - 10), Num(5), Num(10),
    Str(<<"0">>), Str(<<"a">>), Str(<<"0", ".", "0", "1", "a">>),
    Str(<<"-", "1">>), Str(<<"0", ".", "0", "1">>) }

SeqTransactionRequests ==
  [tok : {User1}, f : AccountIds, t : AccountIds,
   a : {Num(5), Num(10), Str(<<"0", ".", "0", "1", "a">>)}, s : Statuses]
  \cup [tok : {User1}, f : {1}, t : {2}, a : Amounts, s : {"Confirmed"}]
  \cup [tok : {User1}, f : {0, 1}, t : {0, 2}, a : {Num(10)}, s : {"Pending"}]
  \cup [tok : {BadToken}, f : {1}, t : {2}, a : {Num(10)}, s : {"Confirmed"}]

NextSeq ==
  \/ \E r \in AccountRequests, ok \in BOOLEAN :
        /\ AllIdle /\ Len(accounts) < MaxAccounts
        /\ createAccount(1, r.tok, r.name, ok)
  \/ \E r \in SeqTransactionRequests, ok \in BOOLEAN :
        /\ AllIdle /\ Len(transactions) < MaxSeqTx
        /\ createTransaction(1, r.tok, r.f, r.t, r.a, r.s, ok)
  \/ \E ok \in BOOLEAN : createTransactionDebit(1, ok)
  \/ \E ok \in BOOLEAN : createTransactionCredit(1, ok)

SpecSeq == Init /\ [][NextSeq]_vars

\* ------- SpecConc: Confirmed transfers of one amount, served concurrently
\* by a store that does not fail, between two accounts that exist.
ConcAmount == Num(5)

InitConc ==
  /\ accounts = <<[user_id |-> 1, name |-> "Checking", balance |-> 0],
                  [user_id |-> 1, name |-> "Checking", balance |-> 0]>>
  /\ transactions = <<>>
  /\ promotions = <<>>
  /\ promotion_steps = {}
  /\ assigned = {}
  /\ progress = <<>>
  /\ users = <<>>
  /\ bets = <<>>
  /\ now = 0
  /\ rand = 0
  /\ conn = [c \in Conn |-> Idle]
  /\ last = NoResp

NextConc ==
  \/ \E c \in Conn, f \in AccountIds, t \in AccountIds :
        /\ Len(transactions) < MaxConcurrentTx
        /\ createTransaction(c, User1, f, t, ConcAmount, "Confirmed", TRUE)
  \/ \E c \in Conn : createTransactionDebit(c, TRUE)
  \/ \E c \in Conn : createTransactionCredit(c, TRUE)

SpecConc == InitConc /\ [][NextConc]_vars

\* ------ SpecFrame: one request at a time over every route that writes
\* accounts or transactions, the promotion progress route included
ProgressRequests ==
  [tok : {User1}, p : {1}, steps : {<<1>>, <<2, 2>>}]
  \cup [tok : {User2, BadToken}, p : {1}, steps : {<<1>>}]

FrameTransactionRequests ==
  [tok : {User1}, f : {1}, t : {2}, a : {Num(10)}, s : Statuses]
  \cup [tok : {User1}, f : {1}, t : {2}, a : {Undef}, s : {"Confirmed"}]

FrameUpdateRequests ==
  [tok : {Admin}, id : {1}, a : {Undef, Num(20)}, ty : {"undefined"},
   s : {"Confirmed"}]
  \cup [tok : {User1}, id : {1}, a : {Undef}, ty : {"undefined"},
        s : {"Confirmed"}]

NextFrame ==
  \/ \E c \in Conn, r \in AccountRequests, ok \in BOOLEAN :
        AllIdle /\ Len(accounts) < MaxAccounts /\ createAccount(c, r.tok, r.name, ok)
  \/ \E c \in Conn, r \in FrameTransactionRequests, ok \in BOOLEAN :
        AllIdle /\ Len(transactions) < MaxTx
        /\ createTransaction(c, r.tok, r.f, r.t, r.a, r.s, ok)
  \/ \E c \in Conn, ok \in BOOLEAN : createTransactionDebit(c, ok)
  \/ \E c \in Conn, ok \in BOOLEAN : createTransactionCredit(c, ok)
  \/ \E c \in Conn, r \in FrameUpdateRequests, ok \in BOOLEAN :
        AllIdle /\ adminUpdateTransaction(c, r.tok, r.id, r.a, r.ty, r.s, ok)
  \/ \E c \in Conn, r \in ProgressRequests, ok \in BOOLEAN :
        AllIdle /\ recordProgress(c, r.tok, r.p, r.steps, ok)
  \/ \E c \in Conn, ok \in BOOLEAN : recordProgressAutoCheck(c, ok)
  \/ \E c \in Conn, ok \in BOOLEAN :
        Len(accounts) < MaxAccounts /\ recordProgressAutoInsert(c, ok)
  \/ \E c \in Conn, ok \in BOOLEAN : recordProgressSelect(c, ok)
  \/ \E c \in Conn, ok \in BOOLEAN : recordProgressWrite(c, ok)

SpecFrame == Init /\ [][NextFrame]_vars

\* ------------ SpecAuth: the auth routes and the two routes that change a
\* user's role or status, served concurrently by a store that does not fail
\* (mail delivery may fail).
MaxRand == 3
Super == Token(4, "superadmin")
Emails == {"a@x", "b@x"}
Passwords == {"p", "q"}

NextAuth ==
  \/ \E c \in Conn, e \in {"a@x", ""} :
        rand < MaxRand /\ register(c, e, "p", TRUE)
  \/ \E c \in Conn : registerInsert(c, TRUE)
  \/ \E c \in Conn, sent \in BOOLEAN : registerMail(c, sent)
  \/ \E c \in Conn, t \in 1..(MaxRand + 1) : verify(c, t, TRUE)
  \/ \E c \in Conn : verifyUpdate(c, TRUE)
  \/ \E c \in Conn, e \in Emails \cup {""}, p \in Passwords : login(c, e, p, TRUE)
  \/ \E c \in Conn, e \in Emails \cup {""} :
        rand < MaxRand /\ forgot(c, e, TRUE)
  \/ \E c \in Conn : forgotUpdate(c, TRUE)
  \/ \E c \in Conn, sent \in BOOLEAN : forgotMail(c, sent)
  \/ \E c \in Conn, t \in 0..(MaxRand + 1), p \in Passwords : reset(c, t, p, TRUE)
  \/ \E c \in Conn : resetUpdate(c, TRUE)
  \/ \E tok \in {Admin, Super} :
        promoteUser(2, "promoteUser", tok, 1, "admin", TRUE)
  \/ \E tok \in {Admin, Super} : deactivateUser(2, tok, 1, TRUE)

SpecAuth == Init /\ [][NextAuth]_vars

\* ------- SpecGuard: the routes behind a role guard, an ownership check or
\* an assignment check, with tokens of every role, a token jwt.verify rejects
\* and a clock that runs past the expiry of the tokens. Connection 1 carries
\* the handlers that span several store calls, connection 2 the others.
MaxClock == 2
MaxBets == 1
GuardTokens == {User1, User2, Admin, Super, BadToken}
RoleTokens == {User1, Admin, Super, BadToken}

UserRow(email, role, status) ==
  [email |-> email, password_hash |-> Hash("p"), role |-> role,
   status |-> status, verification_token |-> 0, reset_token |-> 0,
   used_verification |-> 0, issued_reset |-> 0, used_reset |-> 0,
   reset_uses |-> 0]

\* Two verified users of role user.
InitGuard ==
  /\ accounts = <<>>
  /\ transactions = <<>>
  /\ promotions = <<[sportsbook_name |-> "FanDuel"]>>
  /\ promotion_steps = {[promotion_id |-> 1, step_number |-> 1],
                        [promotion_id |-> 1, step_number |-> 2]}
  /\ assigned = {[user_id |-> 1, promotion_id |-> 1]}
  /\ progress = <<>>
  /\ users = <<UserRow("a@x", "user", "active"), UserRow("b@x", "user", "active")>>
  /\ bets = <<>>
  /\ now = 0
  /\ rand = 0
  /\ conn = [c \in Conn |-> Idle]
  /\ last = NoResp

\* The clock advances.
Tick ==
  /\ now < MaxClock
  /\ now' = now + 1
  /\ last' = NoResp
  /\ UNCHANGED <<ledger, catalogue, progress, users, bets, rand, conn>>

NextGuard ==
  \/ Tick
  \/ \E tok \in RoleTokens : listUsers(2, tok, TRUE)
  \/ \E tok \in RoleTokens, route \in {"promoteUser", "adminPromote"} :
        promoteUser(2, route, tok, 1, "admin", TRUE)
  \/ \E tok \in RoleTokens : adminTest(2, tok)
  \/ \E tok \in RoleTokens, ok \in BOOLEAN : deactivateUser(2, tok, 1, ok)
  \/ \E tok \in RoleTokens :
        Len(transactions) < MaxTx
        /\ adminCreateTransaction(2, tok, 1, 1, 2, Num(10), "Confirmed", TRUE)
  \/ \E tok \in {User1, BadToken} :
        Len(bets) < MaxBets /\ createBet(2, tok, 0, "", TRUE)
  \/ \E tok \in GuardTokens, result \in {"Won", "undefined"}, ok \in BOOLEAN :
        patchBet(1, tok, 1, result, ok)
  \/ \E ok \in BOOLEAN : patchBetUpdate(1, ok)
  \/ \E tok \in {User1, User2, BadToken}, ok \in BOOLEAN :
        recordProgress(1, tok, 1, <<1>>, ok)
  \/ \E ok \in BOOLEAN : recordProgressAutoCheck(1, ok)
  \/ \E ok \in BOOLEAN :
        Len(accounts) < MaxAccounts /\ recordProgressAutoInsert(1, ok)
  \/ \E ok \in BOOLEAN : recordProgressSelect(1, ok)
  \/ \E ok \in BOOLEAN : recordProgressWrite(1, ok)

SpecGuard == InitGuard /\ [][NextGuard]_vars

\* ------ SpecList: the listing routes, read on connection 2 while users 1
\* and 2 create accounts and transactions on connection 1.
NextList ==
  \/ \E tok \in {User1, User2}, ok \in BOOLEAN :
        Len(accounts) < MaxAccounts /\ createAccount(1, tok, "Checking", ok)
  \/ \E tok \in {User1, User2}, ok \in BOOLEAN :
        Len(transactions) < MaxTx
        /\ createTransaction(1, tok, 1, 2, Num(10), "Confirmed", ok)
  \/ \E ok \in BOOLEAN : createTransactionDebit(1, ok)
  \/ \E ok \in BOOLEAN : createTransactionCredit(1, ok)
  \/ \E tok \in {User1, User2, Admin, BadToken}, ok \in BOOLEAN :
        listAccounts(2, tok, ok)
  \/ \E tok \in {User1, User2, Admin, BadToken}, ok \in BOOLEAN :
        listTransactions(2, tok, ok)
  \/ \E tok \in {User1, Admin, BadToken}, user_id \in {0, 1, 2}, ok \in BOOLEAN :
        allTransactions(2, tok, user_id, ok)
  \/ \E tok \in {User1, Admin, BadToken}, userId \in {1, 2}, ok \in BOOLEAN :
        userDetail(2, tok, userId, ok)
  \/ \E ok \in BOOLEAN : userDetailTransactions(2, ok)

SpecList == InitGuard /\ [][NextList]_vars

\* ------ SpecProgress: the promotion progress route, one request at a time,
\* over three promotions user 1 is assigned to: two of the same sportsbook
\* with two and three steps, and one with no sportsbook and no steps. User 2
\* is assigned to none. User 1 may also open an account of the sportsbook's
\* name by hand.
InitProgress ==
  /\ accounts = <<>>
  /\ transactions = <<>>
  /\ promotions = <<[sportsbook_name |-> "FanDuel"], [sportsbook_name |-> "FanDuel"],
                    [sportsbook_name |-> ""]>>
  /\ promotion_steps =
        {[promotion_id |-> 1, step_number |-> i] : i \in 1..2}
        \cup {[promotion_id |-> 2, step_number |-> i] : i \in 1..3}
  /\ assigned = {[user_id |-> 1, promotion_id |-> p] : p \in 1..3}
  /\ progress = <<>>
  /\ users = <<UserRow("a@x", "user", "active"), UserRow("b@x", "user", "active")>>
  /\ bets = <<>>
  /\ now = 0
  /\ rand = 0
  /\ conn = [c \in Conn |-> Idle]
  /\ last = NoResp

StepRequests ==
  [tok : {User1}, p : {1}, steps : {<<1>>, <<1, 2>>, <<2, 1>>}]
  \cup [tok : {User1}, p : {2}, steps : {<<1, 2>>}]
  \cup [tok : {User1}, p : {3}, steps : {<<1>>}]
  \cup [tok : {User2, BadToken}, p : {1}, steps : {<<1>>}]

NextProgress ==
  \/ Tick
  \/ AllIdle /\ Len(accounts) < MaxAccounts
     /\ createAccount(2, User1, "FanDuel", TRUE)
  \/ \E r \in StepRequests, ok \in BOOLEAN :
        AllIdle /\ recordProgress(1, r.tok, r.p, r.steps, ok)
  \/ \E ok \in BOOLEAN : recordProgressAutoCheck(1, ok)
  \/ \E ok \in BOOLEAN :
        Len(accounts) < MaxAccounts /\ recordProgressAutoInsert(1, ok)
  \/ \E ok \in BOOLEAN : recordProgressSelect(1, ok)
  \/ \E ok \in BOOLEAN : recordProgressWrite(1, ok)

SpecProgress == InitProgress /\ [][NextProgress]_vars

\* ------ SpecProgressConc: two progress requests of user 1 for promotion 1
\* in flight at once, their store calls interleaved in every order.
NextProgressConc ==
  \/ \E c \in Conn, steps \in {<<1>>, <<1, 2>>} :
        recordProgress(c, User1, 1, steps, TRUE)
  \/ \E c \in Conn : recordProgressAutoCheck(c, TRUE)
  \/ \E c \in Conn :
        Len(accounts) < MaxAccounts /\ recordProgressAutoInsert(c, TRUE)
  \/ \E c \in Conn : recordProgressSelect(c, TRUE)
  \/ \E c \in Conn : recordProgressWrite(c, TRUE)

SpecProgressConc == InitProgress /\ [][NextProgressConc]_vars

\* ------ SpecPct: the percentage the progress route stores, for promotions
\* of three, no and fifty steps (none with a sportsbook) and step lists with
\* and without repeated numbers.
InitPct ==
  /\ accounts = <<>>
  /\ transactions = <<>>
  /\ promotions = <<[sportsbook_name |-> ""], [sportsbook_name |-> ""],
                    [sportsbook_name |-> ""]>>
  /\ promotion_steps =
        {[promotion_id |-> 1, step_number |-> i] : i \in 1..3}
        \cup {[promotion_id |-> 3, step_number |-> i] : i \in 1..50}
  /\ assigned = {[user_id |-> 1, promotion_id |-> p] : p \in 1..3}
  /\ progress = <<>>
  /\ users = <<UserRow("a@x", "user", "active"), UserRow("b@x", "user", "active")>>
  /\ bets = <<>>
  /\ now = 0
  /\ rand = 0
  /\ conn = [c \in Conn |-> Idle]
  /\ last = NoResp

PctRequests ==
  [tok : {User1}, p : {1}, steps : {<<>>, <<1, 2>>, <<2, 2>>, <<1, 2, 3, 4>>}]
  \cup [tok : {User1}, p : {2}, steps : {<<1>>}]
  \cup [tok : {User1}, p : {3}, steps : {[i \in 1..25 |-> i], [i \in 1..29 |-> i]}]

NextPct ==
  \/ \E r \in PctRequests, ok \in BOOLEAN :
        AllIdle /\ recordProgress(1, r.tok, r.p, r.steps, ok)
  \/ \E ok \in BOOLEAN : recordProgressSelect(1, ok)
  \/ \E ok \in BOOLEAN : recordProgressWrite(1, ok)

SpecPct == InitPct /\ [][NextPct]_vars

\* ------ SpecFunds: user 1 opens accounts and sends transfers between any
\* two account ids, one request at a time, over a store that answers every
\* call.
NextFunds ==
  \/ AllIdle /\ Len(accounts) < MaxAccounts /\ createAccount(1, User1, "Checking", TRUE)
  \/ \E f \in AccountIds, t \in AccountIds, st \in Statuses :
        /\ AllIdle /\ Len(transactions) < MaxSeqTx
        /\ createTransaction(1, User1, f, t, Num(10), st, TRUE)
  \/ createTransactionDebit(1, TRUE)
  \/ createTransactionCredit(1, TRUE)

SpecFunds == Init /\ [][NextFunds]_vars

\* ================================================================ claims
Existing(accts, a) == a \in DOMAIN accts

\* C1 (SpecSeq): a Confirmed createTransaction between two different existing
\* accounts that completes, alone and without a store failure, leaves the
\* destination at its balance before plus the amount and the source at its
\* balance before minus the amount, the amount being taken as the row records
\* it (the reading that asks least of the code).
C1_ConfirmedMovesAmount ==
  ( /\ last.op = "createTransaction" /\ last.resp = 200
    /\ last.status = "Confirmed"
    /\ last.fromAccount # last.toAccount
    /\ Existing(last.before, last.fromAccount)
    /\ Existing(last.before, last.toAccount) )
  => /\ accounts[last.toAccount].balance
          = last.before[last.toAccount].balance + transactions[last.result].amount
     /\ accounts[last.fromAccount].balance
          = last.before[last.fromAccount].balance - transactions[last.result].amount

\* C2 (Spec): a createTransaction whose resulting status is not "Confirmed"
\* answers with every account balance as it was when the request came in, and
\* the row it records carries that status.
C2_NonConfirmedKeepsBalances ==
  (last.op = "createTransaction" /\ last.status # "Confirmed")
  => /\ accounts = last.before
     /\ last.resp = 200 => transactions[last.result].status = last.status

C2_Witness ==
  /\ last.op = "createTransaction" /\ last.resp = 200
  /\ last.status = "Pending"
  /\ Existing(accounts, last.fromAccount) /\ Existing(accounts, last.toAccount)
  /\ Existing(transactions, last.result)

\* C3 (Spec): no state shows a reader the Confirmed row of a createTransaction
\* whose debit or credit is still to be applied.
C3_ConfirmedRowImpliesApplied ==
  \A c \in Conn :
    (conn[c].op = "createTransaction" /\ conn[c].pc \in {"debit", "credit"})
    => ~ \E i \in 1..Len(TransactionRows(transactions, accounts,
                                          conn[c].user.userId, Len(transactions))) :
           LET row == TransactionRows(transactions, accounts,
                                      conn[c].user.userId, Len(transactions))[i]
           IN row.id = conn[c].result /\ row.status = "Confirmed"

\* C4 (SpecSeq): a Confirmed createTransaction between two different existing
\* accounts that ends in a 500 response has left no transaction row behind and
\* no account balance changed.
C4_FailureAbortsAll ==
  ( /\ last.op = "createTransaction" /\ last.status = "Confirmed"
    /\ last.resp = 500
    /\ last.fromAccount # last.toAccount
    /\ Existing(last.before, last.fromAccount)
    /\ Existing(last.before, last.toAccount) )
  => /\ ~ Existing(transactions, last.result)
     /\ accounts = last.before

\* Sum of the amounts of the Confirmed rows txs[1..i] that credit (sign = 1)
\* or debit (sign = -1) account a.
RECURSIVE ConfirmedSum(_, _, _)
ConfirmedSum(txs, a, i) ==
  IF i = 0 THEN 0
  ELSE ConfirmedSum(txs, a, i - 1)
       + (IF txs[i].status = "Confirmed" /\ txs[i].to_account = a
          THEN txs[i].amount ELSE 0)
       - (IF txs[i].status = "Confirmed" /\ txs[i].from_account = a
          THEN txs[i].amount ELSE 0)

\* C5 (Spec): with no handler in flight, every account balance is the sum of
\* the Confirmed transactions into it minus the sum of those out of it.
C5_BalancesMatchConfirmed ==
  AllIdle
  => \A a \in DOMAIN accounts :
       accounts[a].balance = ConfirmedSum(transactions, a, Len(transactions))

\* C6 (Spec): an admin update that takes a transaction from a non-Confirmed
\* status to "Confirmed" debits its source and credits its destination by its
\* amount in that step; an update of a Confirmed transaction applies nothing.
C6_ConfirmingAppliesOnce ==
  [][ ( /\ last'.op = "adminUpdateTransaction" /\ last'.resp = 200
        /\ Existing(transactions, last'.txId)
        /\ transactions'[last'.txId].status = "Confirmed" )
      => IF transactions[last'.txId].status # "Confirmed"
         THEN accounts' =
                UpdateBalance(
                  UpdateBalance(accounts, transactions'[last'.txId].from_account,
                                0 - 10 * transactions'[last'.txId].amount),
                  transactions'[last'.txId].to_account,
                  10 * transactions'[last'.txId].amount)
         ELSE accounts' = accounts ]_vars

\* C7 (SpecFrame): a step changes the balance of an existing account only if
\* it applies a Confirmed transaction: it is the debit or the credit of a
\* Confirmed createTransaction and touches that transaction's source or
\* destination, or an admin update that moves a transaction to "Confirmed".
AppliesConfirmed(a) ==
  \/ \E c \in Conn :
       /\ conn[c].op = "createTransaction" /\ conn[c].status = "Confirmed"
       /\ \/ conn[c].pc = "debit" /\ conn'[c].pc = "credit" /\ a = conn[c].fromAccount
          \/ conn[c].pc = "credit" /\ last'.resp = 200 /\ a = conn[c].toAccount
  \/ /\ last'.op = "adminUpdateTransaction"
     /\ Existing(transactions, last'.txId)
     /\ transactions[last'.txId].status # "Confirmed"
     /\ transactions'[last'.txId].status = "Confirmed"

C7_OnlyConfirmedMovesBalances ==
  [][ /\ Len(accounts') >= Len(accounts)
      /\ \A a \in DOMAIN accounts :
           accounts'[a].balance # accounts[a].balance => AppliesConfirmed(a) ]_vars

C7_Witness ==
  /\ last.op = "recordProgress" /\ last.resp = 200
  /\ \E a \in DOMAIN accounts :
       accounts[a].name = last.sportsbook_name /\ accounts[a].balance = 0
  /\ \E b \in DOMAIN accounts : accounts[b].balance # 0

\* The balances after the transfers order[1..n] of SpecConc have run one after
\* another on accts.
RECURSIVE Replay(_, _, _)
Replay(accts, order, n) ==
  IF n = 0 THEN accts
  ELSE LET prev == Replay(accts, order, n - 1)
           tx == transactions[order[n]]
       IN UpdateBalance(
            UpdateBalance(prev, tx.from_account, 0 - parseFloat(ConcAmount).val),
            tx.to_account, parseFloat(ConcAmount).val)

ZeroBalances == [a \in DOMAIN accounts |-> [accounts[a] EXCEPT !.balance = 0]]

\* C8 (SpecConc): once concurrent Confirmed createTransaction calls have all
\* completed, the balances are those of running the same calls one after
\* another in some order.
C8_ConcurrentEqualsSerial ==
  AllIdle
  => \E order \in [1..Len(transactions) -> 1..Len(transactions)] :
       /\ \A i, j \in 1..Len(transactions) : order[i] = order[j] => i = j
       /\ accounts = Replay(ZeroBalances, order, Len(transactions))

\* A JSON value that is a number: a JSON number, or a string that is a
\* decimal literal from its first to its last character.
IsNumber(v) ==
  \/ v.k = "num"
  \/ v.k = "str" /\ DecimalPrefix(v.s).len > 0 /\ DecimalPrefix(v.s).len = Len(v.s)

\* C9 (SpecSeq): a createTransaction request that lacks fromAccount or
\* toAccount, or whose amount is missing, not a number, zero or negative, is
\* answered 400, records no transaction and changes no balance (a response
\* of 500 tells a store failure and is left aside).
C9_InvalidRequestRejected ==
  ( /\ last.op = "createTransaction" /\ last.user.valid
    /\ last.resp # 500
    /\ \/ last.fromAccount = 0 \/ last.toAccount = 0
       \/ ~ IsNumber(last.amount)
       \/ parseFloat(last.amount).val <= 0 )
  => /\ last.resp = 400
     /\ last.result = 0
     /\ accounts = last.before

\* C10 (SpecSeq): a createTransaction by a caller of role user that names a
\* source or destination account of another owner leaves that account's
\* balance as it was (shown on a transfer between two different accounts that
\* met no store failure).
C10_ForeignAccountUntouched ==
  \A a \in DOMAIN accounts :
    ( /\ last.op = "createTransaction" /\ last.user.valid
      /\ last.user.role = "user"
      /\ last.resp # 500
      /\ last.fromAccount # last.toAccount
      /\ a \in {last.fromAccount, last.toAccount}
      /\ Existing(last.before, a)
      /\ last.before[a].user_id # last.user.userId )
    => accounts[a].balance = last.before[a].balance

\* C16 (SpecAuth): login answers 401 without a token for an unknown email or
\* a wrong password, 403 without a token for matching credentials of a user
\* whose status is not active, and otherwise 200 with a token that carries the
\* user's id and stored role.
C16_LoginIssuesToken ==
  (last.op = "login" /\ last.email # "" /\ last.password # "")
  => LET rows == UsersByEmail(last.email)
         id == FirstRow(rows)
     IN IF rows = {} \/ ~compare(last.password, users[id].password_hash)
        THEN last.resp = 401 /\ last.token = NoToken
        ELSE IF users[id].status # "active"
        THEN last.resp = 403 /\ last.token = NoToken
        ELSE /\ last.resp = 200
             /\ last.token.valid
             /\ last.token.userId = id
             /\ last.token.role = users[id].role

C16_Witness ==
  /\ last.op = "login" /\ last.resp = 200 /\ last.token.role = "admin"
  /\ \E i \in DOMAIN users : users[i].email = last.email /\ users[i].role = "admin"

NoDuplicateEmails ==
  \A i, j \in DOMAIN users : users[i].email = users[j].email => i = j

\* C17 (SpecAuth): no two users share an email, and a register call with
\* email and password that creates no user, its email being taken, is
\* answered 400.
C17_RegisterRejectsTaken ==
  /\ NoDuplicateEmails
  /\ (last.op = "register" /\ last.email # "" /\ last.password # ""
      /\ last.newUser = 0)
     => last.resp = 400

\* C18 (SpecAuth): verify with the token that activated a user who is still
\* active is answered 200.
C18_VerifyIdempotent ==
  ( /\ last.op = "verify"
    /\ \E i \in DOMAIN users : /\ users[i].used_verification = last.token
                               /\ users[i].status = "active" )
  => last.resp = 200

\* C19 (SpecAuth): forgot with an email is answered 200, whether a user has
\* that email or not and whether the reset mail was sent or not.
C19_ForgotAlways200 ==
  (last.op = "forgot" /\ last.email # "") => last.resp = 200

\* C20 (SpecAuth): a reset token replaces a password at most once, and reset
\* with the token forgot issued last for a user, not yet used, is answered 200.
C20_ResetTokenOneTime ==
  /\ \A i \in DOMAIN users : users[i].reset_uses <= 1
  /\ ( /\ last.op = "reset" /\ last.newPassword # "" /\ last.token # 0
       /\ \E i \in DOMAIN users : /\ users[i].issued_reset = last.token
                                  /\ users[i].used_reset # last.token )
     => last.resp = 200

\* C11 (SpecList): every row of an account listing or a transaction listing
\* answered to a caller of role user belongs to that caller.
C11_ListingsOwnRows ==
  ( /\ last.op \in {"listAccounts", "listTransactions", "allTransactions",
                    "userDetail"}
    /\ last.resp = 200 /\ last.user.role = "user" )
  => \A k \in 1..Len(last.body) :
       IF last.op = "listAccounts"
       THEN accounts[last.body[k].id].user_id = last.user.userId
       ELSE transactions[last.body[k].id].user_id = last.user.userId

AdminOps == {"listUsers", "deactivateUser", "adminCreateTransaction"}
SuperOps == {"promoteUser", "adminPromote", "adminTest"}

\* C12 (SpecGuard): with a token jwt.verify accepts, role user is answered
\* 403 on every route behind requireAdmin or requireSuperadmin, role admin
\* is let through requireAdmin and answered 403 behind requireSuperadmin, and
\* role superadmin is let through both.
C12_RoleMatrix ==
  (last.op \in AdminOps \cup SuperOps /\ requireAuth(last.user))
  => /\ last.resp # 401
     /\ last.user.role = "user" => last.resp = 403
     /\ last.user.role = "admin" => (last.resp = 403 <=> last.op \in SuperOps)
     /\ last.user.role = "superadmin" => last.resp # 403

C12_Witness ==
  /\ last.op \in SuperOps /\ requireAuth(last.user)
  /\ last.user.role = "admin" /\ last.resp = 403

\* C13 (SpecGuard): no promote or deactivate request of a caller whose token
\* role is admin changes a user's role or status.
C13_AdminCannotChangeUsers ==
  [][ ( /\ last'.op \in {"promoteUser", "adminPromote", "deactivateUser"}
        /\ last'.user.role = "admin" )
      => users' = users ]_vars

Tables ==
  <<accounts, transactions, promotions, promotion_steps, assigned, progress,
    users, bets>>

\* C14 (SpecGuard): a step that answers 403 leaves every table as it was.
C14_ForbiddenChangesNothing ==
  [][ last'.resp = 403 => Tables' = Tables ]_vars

C14_Witness ==
  /\ last.op = "patchBet" /\ last.resp = 403
  /\ bets[last.betId].user_id # last.user.userId

\* The token is missing, rejected by jwt.verify or past its expiry.
Rejected(tok) == ~tok.valid \/ now >= tok.exp

\* C15 (SpecGuard): a request whose token is missing, rejected by jwt.verify
\* or expired is answered 401 in the step it arrives, enters no handler and
\* leaves every table as it was.
C15_BadTokenIs401 ==
  [][ /\ ( /\ conn' = conn /\ last'.op # "none"
           /\ "user" \in DOMAIN last' /\ Rejected(last'.user) )
         => (last'.resp = 401 /\ Tables' = Tables)
      /\ \A c \in Conn :
           (conn[c] = Idle /\ conn'[c] # Idle /\ "user" \in DOMAIN conn'[c])
           => ~Rejected(conn'[c].user) ]_vars

C15_Witness ==
  /\ last.resp = 401 /\ last.user.valid /\ now >= last.user.exp
  /\ last.op = "patchBet" /\ Len(bets) > 0

\* C21: a progress request of an authenticated user who has no assignment
\* row for the promotion is answered 403 (the store answering), the step
\* that answers creates or updates no progress row and provisions no
\* account, and no handler of an unassigned user gets past the check.
Unassigned(r) ==
  [user_id |-> r.user.userId, promotion_id |-> r.promoId] \notin assigned

C21_UnassignedIs403 ==
  [][ /\ (last'.op = "recordProgress" /\ last'.resp \notin {401, 500}
           /\ Unassigned(last'))
          => (last'.resp = 403 /\ progress' = progress /\ accounts' = accounts)
      /\ \A c \in Conn : conn'[c].op = "recordProgress" => ~Unassigned(conn'[c])
    ]_vars

C21_Witness ==
  last.op = "recordProgress" /\ last.resp = 403 /\ last.user = User2 /\ now = 1

\* C22: the percentage stored in a progress row is floor(100 * k / totalSteps)
\* for the k distinct values of the stored step list and the totalSteps steps
\* of the row's promotion, and 0 when the promotion has no steps.
TotalSteps(p) == Cardinality({r \in promotion_steps : r.promotion_id = p})
Distinct(steps) == Cardinality({steps[j] : j \in 1..Len(steps)})

C22_PctIsFloor ==
  \A i \in DOMAIN progress :
     progress[i].progress_pct
       = PctExact(Distinct(progress[i].completed_steps),
                  TotalSteps(progress[i].promotion_id))

\* C23: provisioning is idempotent. A step of the progress handler adds an
\* account only for a request that includes step 1 of a promotion with a
\* sportsbook name, only when the user has no account of that name, and then
\* adds exactly one; and when such a request is answered 200 the user has an
\* account of that name.
SportsbookAccounts(accts, u, nm) ==
  {a \in DOMAIN accts : accts[a].user_id = u /\ accts[a].name = nm}
HasStep1(steps) == \E i \in 1..Len(steps) : steps[i] = 1

StepSet(steps) == {steps[j] : j \in 1..Len(steps)}
ProgressRows(rows, u, p) ==
  {i \in DOMAIN rows : rows[i].user_id = u /\ rows[i].promotion_id = p}

C24_ReplayKeepsRow ==
  [][ \A c \in Conn :
        (conn[c].op = "recordProgress" /\ conn[c].pc \in {"insert", "update"}
         /\ progress' # progress)
        => \A i \in ProgressRows(progress, conn[c].user.userId, conn[c].promoId) :
              StepSet(progress[i].completed_steps) = StepSet(conn[c].uniqueCompleted)
              => /\ Len(progress') = Len(progress)
                 /\ StepSet(progress'[i].completed_steps)
                      = StepSet(progress[i].completed_steps)
                 /\ progress'[i].progress_pct = progress[i].progress_pct
                 /\ progress'[i].started_at = progress[i].started_at
    ]_vars

C24_Witness ==
  /\ last.op = "recordProgress" /\ last.resp = 200 /\ last.existing # 0
  /\ StepSet(last.existing_steps) = StepSet(last.uniqueCompleted)
  /\ last.existing_steps # last.uniqueCompleted
  /\ progress[last.existing].started_at < now

\* C25: the percentage stored in a progress row lies in [0, 100], whatever
\* step numbers the requests carry.
C25_PctInRange ==
  \A i \in DOMAIN progress :
     progress[i].progress_pct >= 0 /\ progress[i].progress_pct <= 100

\* C26: completed_at is set exactly on the transition into 100%. A step
\* that leaves a row at 100% leaves it with completed_at set (also the step
\* that creates the row), a step that keeps a row at 100% does not write
\* completed_at again, and a row that has not reached 100% has none.
C26_CompletedAtOnTransition ==
  [][ \A i \in DOMAIN progress' :
        /\ progress'[i].progress_pct = 100 => progress'[i].completed_at # NoTime
        /\ (i \in DOMAIN progress /\ progress[i].progress_pct = 100
            /\ progress[i].completed_at # NoTime
            /\ progress'[i].progress_pct = 100)
           => progress'[i].completed_at = progress[i].completed_at
        /\ (progress'[i].progress_pct # 100
            /\ (i \in DOMAIN progress => progress[i].completed_at = NoTime))
           => progress'[i].completed_at = NoTime
    ]_vars

\* C27: overlapping progress requests serialize. Whatever the order of their
\* store calls, the store holds at most one progress row for a (user,
\* promotion) and at most one account of a sportsbook's name for a user.
C27_ConcurrentProgressSerializes ==
  \A u \in DOMAIN users :
     /\ \A p \in DOMAIN promotions : Cardinality(ProgressRows(progress, u, p)) <= 1
     /\ \A p \in DOMAIN promotions :
          promotions[p].sportsbook_name # ""
          => Cardinality(SportsbookAccounts(accounts, u,
                                            promotions[p].sportsbook_name)) <= 1

\* C28: the status of a user never goes from deactivated back to active.
C28_DeactivatedStays ==
  [][ \A i \in DOMAIN users :
        users[i].status = "deactivated" => users'[i].status # "active" ]_vars

\* C29: whether a request passes requireAuth, requireAdmin and
\* requireSuperadmin is decided by its token alone (validity, expiry and
\* role claim), in every state of the users table: a token issued to a user
\* whose stored role or status has changed since is treated as before.
TokenAdmits(op, tok) ==
  /\ ~Rejected(tok)
  /\ op \in AdminOps => tok.role \in {"admin", "superadmin"}
  /\ op \in SuperOps => tok.role = "superadmin"

C29_GuardsReadTokenOnly ==
  last.op \in AdminOps \cup SuperOps \cup {"createBet"}
  => (last.resp \notin {401, 403} <=> TokenAdmits(last.op, last.user))

C29_Witness ==
  /\ users[1].role = "admin" /\ users[1].status = "deactivated"
  /\ last.op = "listUsers" /\ last.user = User1 /\ last.resp = 403

\* C30: conservation of funds. With no handler in flight the balances of all
\* accounts sum to 0, whatever account ids the transfers name.
RECURSIVE SumBalances(_, _)
SumBalances(accts, i) ==
  IF i = 0 THEN 0 ELSE accts[i].balance + SumBalances(accts, i - 1)

C30_FundsConserved == AllIdle => SumBalances(accounts, Len(accounts)) = 0
====
